---- MODULE Spec2Model ----
(***************************************************************************)
(* Model of src/config/thresholds.rs: the Thresholds<T> table and its      *)
(* threshold_for(value, max) lookup.                                       *)
(*                                                                         *)
(* f64 values are modelled as NaN, +inf, -inf or an exact rational n/d     *)
(* (d > 0), with IEEE 754 rules for division by zero, inf and NaN, and     *)
(* Rust's saturating float-to-integer `as` casts.  The inputs are drawn    *)
(* from the grid of multiples of 1/Den.  Arithmetic on finite values is    *)
(* exact: the rounding of an f64 operation (relative error 2^-53) is not   *)
(* modelled, so inputs within a few ulps of a boundary are outside the     *)
(* model.  The negative zero is not among the inputs.                      *)
(***************************************************************************)
EXTENDS Integers, Sequences, FiniteSets

VARIABLES table, value, max, result, pc

vars == <<table, value, max, result, pc>>

\* ---- bounds of the model ------------------------------------------------
Den == 2        \* inputs are multiples of 1/Den
MaxUnits == 3   \* largest input, in whole units
NegUnits == 1   \* most negative input, in whole units
MaxLen == 3     \* longest Dynamic vector
MaxKey == 2     \* largest Manual key

\* ---- program constants --------------------------------------------------
EpsInv == 100000        \* 0.00001 = 1 / EpsInv
UsizeMax == 2147483647  \* stands for usize::MAX: above every modelled length
U32Max == 2147483646    \* stands for u32::MAX: above every modelled key

\* ---- f64 ------------------------------------------------------------------
NaN == [k |-> "nan"]
PInf == [k |-> "pinf"]
NInf == [k |-> "ninf"]
Fin(n, d) == [k |-> "fin", n |-> n, d |-> d]

IsFin(a) == a.k = "fin"

\* sign of an f64 other than NaN: -1, 0 or 1
Sgn(a) ==
  IF a.k = "pinf" THEN 1
  ELSE IF a.k = "ninf" THEN -1
  ELSE IF a.n > 0 THEN 1 ELSE IF a.n < 0 THEN -1 ELSE 0

Signed(s) == IF s > 0 THEN PInf ELSE NInf

Abs(i) == IF i < 0 THEN -i ELSE i

\* a / b
FDiv(a, b) ==
  IF a.k = "nan" \/ b.k = "nan" THEN NaN
  ELSE IF ~IsFin(a) /\ ~IsFin(b) THEN NaN
  ELSE IF ~IsFin(a) THEN Signed(Sgn(a) * (IF Sgn(b) < 0 THEN -1 ELSE 1))
  ELSE IF ~IsFin(b) THEN Fin(0, 1)
  ELSE IF b.n = 0 THEN (IF a.n = 0 THEN NaN ELSE Signed(Sgn(a)))
  ELSE Fin(a.n * b.d * Sgn(b), a.d * Abs(b.n))

\* a * b
FMul(a, b) ==
  IF a.k = "nan" \/ b.k = "nan" THEN NaN
  ELSE IF IsFin(a) /\ IsFin(b) THEN Fin(a.n * b.n, a.d * b.d)
  ELSE IF Sgn(a) = 0 \/ Sgn(b) = 0 THEN NaN
  ELSE Signed(Sgn(a) * Sgn(b))

\* a - b, b finite
FSub(a, b) ==
  IF IsFin(a) THEN Fin(a.n * b.d - b.n * a.d, a.d * b.d) ELSE a

\* a <= b
FLe(a, b) ==
  IF a.k = "nan" \/ b.k = "nan" THEN FALSE
  ELSE IF a.k = "ninf" \/ b.k = "pinf" THEN TRUE
  ELSE IF a.k = "pinf" \/ b.k = "ninf" THEN FALSE
  ELSE a.n * b.d <= b.n * a.d

\* a < b
FLt(a, b) ==
  IF a.k = "nan" \/ b.k = "nan" THEN FALSE
  ELSE IF a.k = b.k /\ ~IsFin(a) THEN FALSE
  ELSE IF a.k = "ninf" \/ b.k = "pinf" THEN TRUE
  ELSE IF a.k = "pinf" \/ b.k = "ninf" THEN FALSE
  ELSE a.n * b.d < b.n * a.d

\* f64::floor
Floor(a) == IF IsFin(a) THEN Fin(a.n \div a.d, 1) ELSE a

\* `as usize` / `as u32` of an f64: saturating, NaN to 0
SatCast(a, top) ==
  IF a.k = "nan" \/ a.k = "ninf" THEN 0
  ELSE IF a.k = "pinf" THEN top
  ELSE IF a.n \div a.d < 0 THEN 0
  ELSE IF a.n \div a.d > top THEN top
  ELSE a.n \div a.d

AsUsize(a) == SatCast(a, UsizeMax)

AsU32(a) == SatCast(a, U32Max)

\* ---- Option<&T> -----------------------------------------------------------
None == [tag |-> "None"]
Some(slot, val) == [tag |-> "Some", slot |-> slot, val |-> val]
Panic == [tag |-> "Panic"]
NotCalled == [tag |-> "NotCalled"]

\* ---- Thresholds<T> --------------------------------------------------------
Basic(low, medium, high) ==
  [kind |-> "Basic", low |-> low, medium |-> medium, high |-> high]

Dynamic(vec) == [kind |-> "Dynamic", vec |-> vec]

Manual(map) == [kind |-> "Manual", map |-> map]

\* Vec::get with a 0-based index
VecGet(vec, index) ==
  IF index < Len(vec) THEN Some(index, vec[index + 1]) ELSE None

\* variant of VecLast: indexes len - 1 without looking at the length
VecLastUnchecked(vec) ==
  IF Len(vec) = 0 THEN Panic ELSE Some(Len(vec) - 1, vec[Len(vec)])

\* Vec::last
VecLast(vec) ==
  IF Len(vec) = 0 THEN None ELSE Some(Len(vec) - 1, vec[Len(vec)])

\* HashMap::get
MapGet(map, key) ==
  IF key \in DOMAIN map THEN Some(key, map[key]) ELSE None

\* variant of BasicMatch: the last range written 2.0..3.0
BasicMatchOpenTop(t, ratio) ==
  IF FLe(Fin(0, 1), ratio) /\ FLt(ratio, Fin(1, 1)) THEN Some("low", t.low)
  ELSE IF FLe(Fin(1, 1), ratio) /\ FLt(ratio, Fin(2, 1))
    THEN Some("medium", t.medium)
  ELSE IF FLe(Fin(2, 1), ratio) /\ FLt(ratio, Fin(3, 1))
    THEN Some("high", t.high)
  ELSE Panic

\* variant of BasicMatch: the middle range written 1.0..=2.0
BasicMatchClosedMedium(t, ratio) ==
  IF FLe(Fin(0, 1), ratio) /\ FLt(ratio, Fin(1, 1)) THEN Some("low", t.low)
  ELSE IF FLe(Fin(1, 1), ratio) /\ FLe(ratio, Fin(2, 1))
    THEN Some("medium", t.medium)
  ELSE IF FLe(Fin(2, 1), ratio) /\ FLe(ratio, Fin(3, 1))
    THEN Some("high", t.high)
  ELSE Panic

\* variant of BasicMatch: the medium and high slots exchanged
BasicMatchSwapped(t, ratio) ==
  IF FLe(Fin(0, 1), ratio) /\ FLt(ratio, Fin(1, 1)) THEN Some("low", t.low)
  ELSE IF FLe(Fin(1, 1), ratio) /\ FLt(ratio, Fin(2, 1))
    THEN Some("high", t.high)
  ELSE IF FLe(Fin(2, 1), ratio) /\ FLe(ratio, Fin(3, 1))
    THEN Some("medium", t.medium)
  ELSE Panic

\* the match on value / interval of the Basic arm
BasicMatch(t, ratio) ==
  IF FLe(Fin(0, 1), ratio) /\ FLt(ratio, Fin(1, 1)) THEN Some("low", t.low)
  ELSE IF FLe(Fin(1, 1), ratio) /\ FLt(ratio, Fin(2, 1))
    THEN Some("medium", t.medium)
  ELSE IF FLe(Fin(2, 1), ratio) /\ FLe(ratio, Fin(3, 1))
    THEN Some("high", t.high)
  ELSE Panic

BasicArm(t, v, m) == BasicMatch(t, FDiv(v, FDiv(m, Fin(3, 1))))

\* variant of DynamicIndex: nothing subtracted
DynamicIndexNoEps(vec, v, m) == FMul(FDiv(v, m), Fin(Len(vec), 1))

\* variant of DynamicIndex: 0.00001 added
DynamicIndexPlusEps(vec, v, m) ==
  FSub(FMul(FDiv(v, m), Fin(Len(vec), 1)), Fin(-1, EpsInv))

\* (value / max) * map.len() as f64 - 0.00001
DynamicIndex(vec, v, m) ==
  FSub(FMul(FDiv(v, m), Fin(Len(vec), 1)), Fin(1, EpsInv))

\* variant of DynamicArm: no branch for value > max
DynamicArmNoClamp(t, v, m) ==
  VecGet(t.vec, AsUsize(Floor(DynamicIndex(t.vec, v, m))))

DynamicArm(t, v, m) ==
  IF FLe(v, m)
    THEN VecGet(t.vec, AsUsize(Floor(DynamicIndex(t.vec, v, m))))
    ELSE VecLast(t.vec)

\* the orders in which HashMap::keys may yield the keys
RECURSIVE KeyOrders(_)
KeyOrders(S) ==
  IF S = {} THEN {<<>>}
  ELSE UNION {{<<x>> \o p : p \in KeyOrders(S \ {x})} : x \in S}

RECURSIVE InsertSorted(_, _)
InsertSorted(s, x) ==
  IF s = <<>> THEN <<x>>
  ELSE IF x <= Head(s) THEN <<x>> \o s
  ELSE <<Head(s)>> \o InsertSorted(Tail(s), x)

\* keys.sort()
RECURSIVE Sort(_)
Sort(s) ==
  IF s = <<>> THEN <<>>
  ELSE InsertSorted(Sort(Tail(s)), Head(s))

\* keys.into_iter().rfind(|k| **k <= bound)
RECURSIVE RFind(_, _)
RFind(keys, bound) ==
  IF keys = <<>> THEN None
  ELSE IF keys[Len(keys)] <= bound THEN Some(keys[Len(keys)], TRUE)
  ELSE RFind(SubSeq(keys, 1, Len(keys) - 1), bound)

\* variant of ManualArm: the keys left in the map's order
ManualArmUnsorted(t, v, keys) ==
  LET found == RFind(keys, AsU32(Floor(v)))
  IN IF found.tag = "None" THEN None ELSE MapGet(t.map, found.slot)

ManualArm(t, v, keys) ==
  LET found == RFind(Sort(keys), AsU32(Floor(v)))
  IN IF found.tag = "None" THEN None ELSE MapGet(t.map, found.slot)

\* ---- the state machine ----------------------------------------------------
\* The table and the known maximum are fixed when the caller is set up; each
\* call brings a new measurement.  T is opaque to the code, so every slot
\* holds a payload of its own.
Grid(lo, hi) == {Fin(n, Den) : n \in (lo * Den)..(hi * Den)}

F64In == Grid(-NegUnits, MaxUnits) \cup {NaN, PInf, NInf}

Icon(slot) == <<"icon", slot>>

Vecs == {[i \in 1..n |-> Icon(i - 1)] : n \in 0..MaxLen}

Maps == {[key \in ks |-> Icon(key)] : ks \in SUBSET (0..MaxKey)}

Tables ==
  {Basic(Icon("low"), Icon("medium"), Icon("high"))}
  \cup {Dynamic(vec) : vec \in Vecs}
  \cup {Manual(map) : map \in Maps}

Init ==
  /\ table \in Tables
  /\ max \in F64In
  /\ value = Fin(0, Den)
  /\ result = NotCalled
  /\ pc = "idle"

Return(v, r) ==
  /\ pc # "panicked"
  /\ value' = v
  /\ result' = r
  /\ pc' = IF r = Panic THEN "panicked" ELSE "returned"
  /\ UNCHANGED <<table, max>>

CallBasic(v) ==
  /\ table.kind = "Basic"
  /\ Return(v, BasicArm(table, v, max))

CallDynamic(v) ==
  /\ table.kind = "Dynamic"
  /\ Return(v, DynamicArm(table, v, max))

CallManual(v) ==
  /\ table.kind = "Manual"
  /\ \E keys \in KeyOrders(DOMAIN table.map) :
       Return(v, ManualArm(table, v, keys))

Next ==
  \E v \in F64In :
    \/ CallBasic(v)
    \/ CallDynamic(v)
    \/ CallManual(v)

Spec == Init /\ [][Next]_vars

\* ---- properties ------------------------------------------------------------
\* value and max of a finished call, as numerators over Den
Called == pc # "idle"

V == value.n

M == max.n

\* number of entries of the Dynamic table
N == Len(table.vec)

\* max > 0 and 0 <= value <= max
InDomain ==
  /\ IsFin(value) /\ IsFin(max)
  /\ M > 0 /\ 0 <= V /\ V <= M

\* value > max
OverMax ==
  \/ IsFin(value) /\ IsFin(max) /\ V > M
  \/ value = PInf /\ max.k \in {"fin", "ninf"}
  \/ IsFin(value) /\ max = NInf

\* C1: Basic, max M > 0, 0 <= v <= M: low when v / (M/3) is in [0, 1),
\* medium when it is in [1, 2), high when it is in [2, 3]; v = M gives high.
C1_BasicByRatio ==
  (Called /\ table.kind = "Basic" /\ InDomain) =>
    /\ (3 * V < M) => result = Some("low", table.low)
    /\ (M <= 3 * V /\ 3 * V < 2 * M) => result = Some("medium", table.medium)
    /\ (2 * M <= 3 * V /\ 3 * V <= 3 * M) => result = Some("high", table.high)

\* a call with value = max on a Basic table has returned high
C1_Witness ==
  /\ pc = "returned" /\ table.kind = "Basic" /\ InDomain
  /\ V = M
  /\ result = Some("high", table.high)

\* C7 as stated: Basic, M > 0: the value 2M/3 resolves to medium.
C7_TwoThirdsIsMedium ==
  (Called /\ table.kind = "Basic" /\ InDomain /\ 3 * V = 2 * M) =>
    result = Some("medium", table.medium)

\* C7 amended: Basic, M > 0: the value 2M/3 resolves to high, the value M/3
\* to medium and the value M to high.
C7_TwoThirdsIsHigh ==
  (Called /\ table.kind = "Basic" /\ InDomain) =>
    /\ (3 * V = 2 * M) => result = Some("high", table.high)
    /\ (3 * V = M) => result = Some("medium", table.medium)
    /\ (V = M) => result = Some("high", table.high)

\* a call with value = 2 max / 3 on a Basic table has returned
C7_Witness ==
  /\ pc = "returned" /\ table.kind = "Basic" /\ InDomain
  /\ 3 * V = 2 * M
  /\ result.slot = "high"

\* floor((v / M) * N - 0.00001), in integers (M > 0)
FloorIndex == (EpsInv * V * N - M) \div (EpsInv * M)

\* C2 as stated: Dynamic, N >= 1, M > 0, 0 <= v <= M: the result is
\* entries[floor((v/M)*N - 0.00001)] and that index is in [0, N).
C2_FloorIndexInRange ==
  (Called /\ table.kind = "Dynamic" /\ N >= 1 /\ InDomain) =>
    /\ FloorIndex \in 0..(N - 1)
    /\ result = Some(FloorIndex, table.vec[FloorIndex + 1])

\* floor((v / M) * N - 0.00001) with a negative floor taken as 0
ClampedIndex == IF FloorIndex < 0 THEN 0 ELSE FloorIndex

\* C2 amended: Dynamic, N >= 1, M > 0, 0 <= v <= M: the result is
\* entries[max(0, floor((v/M)*N - 0.00001))]; that index is in [0, N), so the
\* result is never none; value 0 gives entries[0], value M gives entries[N-1].
C2_ClampedFloorIndex ==
  (Called /\ table.kind = "Dynamic" /\ N >= 1 /\ InDomain) =>
    /\ ClampedIndex \in 0..(N - 1)
    /\ result = Some(ClampedIndex, table.vec[ClampedIndex + 1])
    /\ (V = 0) => result = Some(0, table.vec[1])
    /\ (V = M) => result = Some(N - 1, table.vec[N])

\* a call with value 0, where the floor is -1, on a Dynamic table of two or
\* more entries has returned the first entry
C2_Witness ==
  /\ pc = "returned" /\ table.kind = "Dynamic" /\ N >= 2 /\ InDomain
  /\ V = 0 /\ FloorIndex = -1
  /\ result = Some(0, table.vec[1])

\* v lies in [k*M/N, (k+1)*M/N), or in [(N-1)*M/N, M] for k = N-1
InBucket(k) ==
  /\ k * M <= V * N
  /\ \/ V * N < (k + 1) * M
     \/ k = N - 1 /\ V * N <= (k + 1) * M

InShiftedBucket(k) ==
  /\ k = 0 \/ (EpsInv * k + 1) * M <= EpsInv * V * N
  /\ EpsInv * V * N < (EpsInv * (k + 1) + 1) * M

KeysAtOrBelow ==
  IF value = PInf THEN DOMAIN table.map
  ELSE {key \in DOMAIN table.map : key * Den <= V}

Greatest(S) == CHOOSE x \in S : \A y \in S : y <= x

\* C3: Manual, value >= 0, any max: the result is the payload at the greatest
\* configured key <= floor(value), whatever the order the map yields its keys
\* in, and none exactly when no configured key is <= floor(value).
C3_ManualGreatestKey ==
  (Called /\ table.kind = "Manual" /\ (value = PInf \/ (IsFin(value) /\ V >= 0)))
    =>
    /\ (KeysAtOrBelow = {}) <=> (result = None)
    /\ (KeysAtOrBelow # {}) =>
         result = Some(Greatest(KeysAtOrBelow),
                       table.map[Greatest(KeysAtOrBelow)])

\* a call with a fractional value between two configured keys has returned
\* the lower one
C3_Witness ==
  /\ pc = "returned" /\ table.kind = "Manual"
  /\ IsFin(value) /\ V > 0 /\ V % Den # 0
  /\ result.tag = "Some"
  /\ \E key \in DOMAIN table.map : key > result.slot /\ key * Den > V
  /\ \E key \in DOMAIN table.map : key < result.slot

\* C4: threshold_for never panics: for every variant and every (value, max)
\* the call completes with a configured entry or none.
C4_NeverPanics == Called => result.tag \in {"Some", "None"}

\* C5: Dynamic, N >= 1: whenever value > max the result is the last entry.
C5_OverMaxIsLast ==
  (Called /\ table.kind = "Dynamic" /\ N >= 1 /\ OverMax) =>
    result = Some(N - 1, table.vec[N])

\* a call with a finite value above a positive max on a Dynamic table of two
\* or more entries has returned the last entry
C5_Witness ==
  /\ pc = "returned" /\ table.kind = "Dynamic" /\ N >= 2
  /\ IsFin(value) /\ IsFin(max) /\ M > 0 /\ V > M + Den
  /\ result = Some(N - 1, table.vec[N])

\* value is less than every configured key
BelowEveryKey ==
  \/ value = NInf
  \/ IsFin(value) /\ \A key \in DOMAIN table.map : V < key * Den

\* C8: Manual, every value (negative ones included) and every max: when value
\* is less than every configured key, the empty key set included, the result
\* is none.
C8_BelowEveryKeyIsNone ==
  (Called /\ table.kind = "Manual" /\ BelowEveryKey) => result = None

\* C9: a Manual table with no keys and a Dynamic table with no entries return
\* none for every (value, max), on the value <= max path and on the
\* value > max path.
C9_EmptyIsNone ==
  (/\ Called
   /\ \/ table.kind = "Dynamic" /\ N = 0
      \/ table.kind = "Manual" /\ DOMAIN table.map = {})
    => result = None

\* a call with value > max on a Dynamic table with no entries has returned
C9_Witness ==
  /\ pc = "returned" /\ table.kind = "Dynamic" /\ N = 0
  /\ OverMax
  /\ result = None

\* the position of a result: none below every slot; low < medium < high for
\* Basic, the index for Dynamic, the key for Manual
Rank(t, r) ==
  IF r.tag # "Some" THEN -1
  ELSE IF t.kind = "Basic"
    THEN (IF r.slot = "low" THEN 0 ELSE IF r.slot = "medium" THEN 1 ELSE 2)
  ELSE r.slot

\* C10: fixed table, fixed max M > 0: for 0 <= v1 <= v2 <= M the position
\* selected for v1 is at most the position selected for v2, whichever of the
\* two calls is made first.
C10_Monotone ==
  [][(/\ pc = "returned" /\ pc' = "returned"
      /\ InDomain /\ InDomain')
     => /\ (V <= V') => Rank(table, result) <= Rank(table', result')
        /\ (V' <= V) => Rank(table', result') <= Rank(table, result)]_vars

\* a call inside [0, max] has returned a position above the lowest one
C10_Witness ==
  /\ pc = "returned" /\ InDomain
  /\ V > 0
  /\ Rank(table, result) >= 1

====
